---- MODULE Spec2Model ----
(***************************************************************************)
(* Model of the local-ai-packaged setup scripts: start_services.py (secret *)
(* generation, .env provisioning and mirroring, service selection and      *)
(* docker compose start-up) and cleanup.py (confirmed destructive          *)
(* teardown).  One process runs at a time, started from the shell.         *)
(***************************************************************************)
EXTENDS Integers, Sequences, FiniteSets, TLC

VARIABLES
    pc,                 \* position of the running script ("shell" = none running)
    prog,               \* script that is running, or ran last
    files,              \* path -> content (sequence of lines) of the existing files
    dirs,               \* set of existing directories
    cmds,               \* external commands issued by the current/last run, in order
    rc,                 \* outcome of the last external command of cleanup.run_command
    exitCode,           \* exit status of the last finished run (-1: none yet)
    envAtStart,         \* .env as it was when the current/last run began
    createCalled,       \* create_env_file was invoked in the current/last run
    use_cloudflared,    \* main()'s local: result of setup_cloudflared
    answers,            \* what was typed at the prompts of select_services
    selected_services,  \* main()'s local: result of select_services
    startResult,        \* return value of start_services ("none" before it returns)
    confirmation,       \* what was typed at the confirmation prompt of cleanup.py
    step,               \* index of the next step of cleanup()
    downOutcome,        \* how the compose down of start_services ended ("none": not run)
    dirsAtStart,        \* the directories that existed when the current/last run began
    gen                 \* a call of one of the random string generators

vars == <<pc, prog, files, dirs, cmds, rc, exitCode, envAtStart, createCalled,
          use_cloudflared, answers, selected_services, startResult, confirmation,
          step, downOutcome, dirsAtStart, gen>>

----------------------------------------------------------------------------
(* Bounds *)

\* longest string requested from a generator in SpecGen
MaxLen == 4
\* how many times the tunnel credentials may be appended to one .env
MaxTunnelAppends == 2

----------------------------------------------------------------------------
(* Characters.  The alphabets of the string module are sampled: two        *)
(* letters, one digit, one punctuation character outside the default       *)
(* exclusion set and two inside it.                                        *)

ascii_letters == {"a", "Z"}
digits == {"7"}
punctuation == {"#", "@", "'"}
\* default value of exclude_chars: @ < > & ' "
DefaultExcludeChars == {"@", "<", ">", "&", "'", "\""}
\* alphabet of secrets.token_urlsafe (base64url), sampled
urlsafe_chars == {"k", "-"}

\* generate_random_string: the full punctuation, a slip that forgets exclude_chars
symbols_unfiltered(exclude_chars) == punctuation
symbols(exclude_chars) == {c \in punctuation : c \notin exclude_chars}
all_chars(exclude_chars) == ascii_letters \cup digits \cup symbols(exclude_chars)

AnyIn(password, set) == \E i \in 1..Len(password) : password[i] \in set

\* the acceptance test of the retry loop of generate_random_string
Accepted(password, exclude_chars) ==
    /\ AnyIn(password, ascii_letters)
    /\ AnyIn(password, digits)
    /\ AnyIn(password, symbols(exclude_chars))

\* alphabets of generate_secret and generate_secure_string
secret_alphabet == ascii_letters \cup digits
secure_alphabet == ascii_letters \cup digits \cup punctuation

\* every string of the given length over the alphabet
Strings(length, alphabet) == [1..length -> alphabet]
\* the string made of `length` copies of one character
Fill(length, c) == [i \in 1..length |-> c]

GenFns == {"generate_random_string", "generate_secret", "generate_secure_string"}
GenIdle == [fn |-> "none", length |-> 0, password |-> <<>>, pc |-> "idle"]

GenAlphabet(fn) ==
    CASE fn = "generate_random_string" -> all_chars(DefaultExcludeChars)
      [] fn = "generate_secret" -> secret_alphabet
      [] OTHER -> secure_alphabet

\* a caller invokes a generator with some length
GenCall ==
    /\ gen.pc = "idle"
    /\ \E fn \in GenFns, length \in 0..MaxLen :
          gen' = [fn |-> fn, length |-> length, password |-> <<>>, pc |-> "draw"]
    /\ UNCHANGED <<pc, prog, files, dirs, cmds, rc, exitCode, envAtStart, createCalled,
                   use_cloudflared, answers, selected_services, startResult,
                   confirmation, step, downOutcome, dirsAtStart>>

\* ''.join(secrets.choice(alphabet) for _ in range(length))
GenDraw ==
    /\ gen.pc = "draw"
    /\ \E password \in Strings(gen.length, GenAlphabet(gen.fn)) :
          gen' = [gen EXCEPT !.password = password,
                             !.pc = IF gen.fn = "generate_random_string"
                                    THEN "test" ELSE "returned"]
    /\ UNCHANGED <<pc, prog, files, dirs, cmds, rc, exitCode, envAtStart, createCalled,
                   use_cloudflared, answers, selected_services, startResult,
                   confirmation, step, downOutcome, dirsAtStart>>

\* generate_random_string: return the candidate if it passes, else draw again
GenTest ==
    /\ gen.pc = "test"
    /\ gen' = [gen EXCEPT !.pc = IF Accepted(gen.password, DefaultExcludeChars)
                                 THEN "returned" ELSE "draw"]
    /\ UNCHANGED <<pc, prog, files, dirs, cmds, rc, exitCode, envAtStart, createCalled,
                   use_cloudflared, answers, selected_services, startResult,
                   confirmation, step, downOutcome, dirsAtStart>>

----------------------------------------------------------------------------
(* Lines of a NAME=value file.  A value is a literal text followed by      *)
(* generated characters; a line with an empty name is an empty line.       *)

Line(name, lit, chars) == [name |-> name, lit |-> lit, gen |-> chars]
Fixed(name, lit) == Line(name, lit, <<>>)
Random(name, chars) == Line(name, "", chars)
BlankLine == Line("", "", <<>>)

\* secrets.token_urlsafe(nbytes): base64url text of nbytes random bytes (sampled)
token_urlsafe(nbytes, c) == Fill((4 * nbytes + 2) \div 3, c)

\* One outcome of the random source per invocation: a record rnd of the
\* characters drawn; each generator call of the invocation repeats its
\* character.  Two outcomes are explored, one of them drawing an excluded
\* punctuation character.
RandomDraws ==
    { [secure |-> "a", urlsafe |-> "k", secret |-> "Z"],
      [secure |-> "@", urlsafe |-> "-", secret |-> "Z"] }

generate_secret(length, rnd) == Fill(length, rnd.secret)
generate_secure_string(length, rnd) == Fill(length, rnd.secure)
generate_jwt_secret(rnd) == token_urlsafe(32, rnd.urlsafe)

\* jwt.encode(payload, secret_key, algorithm="HS256"): the signature part, the
\* base64url text of a 32-byte MAC, a function of the signing input and the key
HS256Signature(signing_input, secret_key) ==
    [i \in 1..((4 * 32 + 2) \div 3) |->
        IF i % 2 = 1 /\ Len(secret_key) > 0
        THEN secret_key[((i - 1) % Len(secret_key)) + 1]
        ELSE IF Len(signing_input) % 2 = 0 THEN "k" ELSE "-"]

\* the dictionary env_vars of create_env_file, in insertion order
env_vars(rnd) ==
    << Fixed("tmp", "/tmp"),
       Random("POSTGRES_PASSWORD", generate_secure_string(16, rnd)),
       Fixed("POSTGRES_USER", "postgres"),
       Fixed("POSTGRES_DB", "postgres"),
       Fixed("POSTGRES_HOST", "db"),
       Fixed("POSTGRES_PORT", "5432"),
       Fixed("REDIS_HOST", "redis"),
       Fixed("REDIS_PORT", "6379"),
       Random("REDIS_PASSWORD", generate_secure_string(16, rnd)),
       Fixed("SUPABASE_DB_HOST", "db"),
       Fixed("SUPABASE_DB_PORT", "5432"),
       Fixed("SUPABASE_DB_NAME", "postgres"),
       Fixed("SUPABASE_DB_USER", "postgres"),
       Random("SUPABASE_DB_PASSWORD", generate_secure_string(16, rnd)),
       Random("JWT_SECRET", generate_jwt_secret(rnd)),
       Line("ANON_KEY", "eyJhbGciOiJIUzI1NiIsInR5cCI6IkpXVCJ9.eyJyb2xlIjoiYW5vbiIsImlzcyI6InN1cGFiYXNlLWRlbW8iLCJpYXQiOjE2NDE3NjkyMDAsImV4cCI6MTc5OTUzNTYwMH0.", generate_secure_string(32, rnd)),
       Line("SERVICE_ROLE_KEY", "eyJhbGciOiJIUzI1NiIsInR5cCI6IkpXVCJ9.eyJyb2xlIjoic2VydmljZV9yb2xlIiwiaXNzIjoic3VwYWJhc2UtZGVtbyIsImlhdCI6MTY0MTc2OTIwMCwiZXhwIjoxNzk5NTM1NjAwfQ.", generate_secure_string(32, rnd)),
       Fixed("DASHBOARD_USERNAME", "supabase"),
       Random("DASHBOARD_PASSWORD", generate_secure_string(16, rnd)),
       Fixed("POOLER_TENANT_ID", "1000"),
       Fixed("POOLER_PROXY_PORT_TRANSACTION", "6543"),
       Fixed("POOLER_DEFAULT_POOL_SIZE", "20"),
       Fixed("POOLER_MAX_CLIENT_CONN", "100"),
       Random("SECRET_KEY_BASE", generate_secure_string(64, rnd)),
       Random("VAULT_ENC_KEY", generate_secure_string(32, rnd)),
       Fixed("KONG_HTTP_PORT", "8000"),
       Fixed("KONG_HTTPS_PORT", "8443"),
       Fixed("PGRST_DB_SCHEMAS", "public,storage,graphql_public"),
       Fixed("SITE_URL", "http://localhost:3000"),
       Fixed("ADDITIONAL_REDIRECT_URLS", ""),
       Fixed("JWT_EXPIRY", "3600"),
       Fixed("DISABLE_SIGNUP", "false"),
       Fixed("API_EXTERNAL_URL", "http://localhost:8000"),
       Fixed("MAILER_URLPATHS_CONFIRMATION", "/auth/v1/verify"),
       Fixed("MAILER_URLPATHS_INVITE", "/auth/v1/verify"),
       Fixed("MAILER_URLPATHS_RECOVERY", "/auth/v1/verify"),
       Fixed("MAILER_URLPATHS_EMAIL_CHANGE", "/auth/v1/verify"),
       Fixed("ENABLE_EMAIL_SIGNUP", "true"),
       Fixed("ENABLE_EMAIL_AUTOCONFIRM", "false"),
       Fixed("SMTP_ADMIN_EMAIL", "admin@example.com"),
       Fixed("SMTP_HOST", "supabase-mail"),
       Fixed("SMTP_PORT", "2500"),
       Random("SMTP_USER", generate_secure_string(16, rnd)),
       Random("SMTP_PASS", generate_secure_string(16, rnd)),
       Fixed("SMTP_SENDER_NAME", "Local AI System"),
       Fixed("ENABLE_ANONYMOUS_USERS", "false"),
       Fixed("ENABLE_PHONE_SIGNUP", "true"),
       Fixed("ENABLE_PHONE_AUTOCONFIRM", "true"),
       Fixed("STUDIO_DEFAULT_ORGANIZATION", "Default Organization"),
       Fixed("STUDIO_DEFAULT_PROJECT", "Default Project"),
       Fixed("STUDIO_PORT", "3000"),
       Fixed("SUPABASE_PUBLIC_URL", "http://localhost:8000"),
       Fixed("IMGPROXY_ENABLE_WEBP_DETECTION", "true"),
       Fixed("FUNCTIONS_VERIFY_JWT", "false"),
       Random("LOGFLARE_LOGGER_BACKEND_API_KEY", generate_secure_string(32, rnd)),
       Random("LOGFLARE_API_KEY", generate_secure_string(32, rnd)),
       Fixed("DOCKER_SOCKET_LOCATION", "/var/run/docker.sock"),
       Fixed("N8N_BASIC_AUTH_USER", "admin"),
       Random("N8N_BASIC_AUTH_PASSWORD", generate_secure_string(16, rnd)),
       Random("N8N_ENCRYPTION_KEY", generate_secure_string(32, rnd)),
       Fixed("N8N_HOST", "http://localhost:5678"),
       Fixed("N8N_PORT", "5678"),
       Fixed("N8N_PROTOCOL", "http"),
       Fixed("N8N_SSL_CERT", ""),
       Fixed("N8N_SSL_KEY", ""),
       Random("N8N_USER_MANAGEMENT_JWT_SECRET", generate_secure_string(32, rnd)),
       Fixed("FLOWISE_USERNAME", "admin"),
       Random("FLOWISE_PASSWORD", generate_secure_string(16, rnd)),
       Fixed("FLOWISE_PORT", "3001"),
       Random("SEARXNG_SECRET", generate_secure_string(32, rnd)) >>

----------------------------------------------------------------------------
(* The working directory *)

ENV == ".env"
MIRROR == "supabase/docker/.env"
COMPOSE == "supabase/docker/docker-compose.yml"
SETTINGS == "searxng-data/settings.yml"

\* directory holding a path ("." is the working directory itself)
Parent(path) ==
    CASE path \in {MIRROR, COMPOSE, "supabase/docker/volumes"} -> "supabase/docker"
      [] path = "supabase/docker" -> "supabase"
      [] path = SETTINGS -> "searxng-data"
      [] OTHER -> "."

\* everything a recursive removal of a directory takes with it
Tree(dir) ==
    CASE dir = "supabase" -> {"supabase", "supabase/docker", MIRROR, COMPOSE}
      [] dir = "searxng-data" -> {"searxng-data", SETTINGS}
      [] OTHER -> {dir}

FS(f, d) == [files |-> f, dirs |-> d]

\* no file at all; a local of main() that is not assigned yet
NoFiles == [p \in {} |-> <<>>]
Unset == [s \in {} |-> FALSE]

\* os.path.exists
exists(F, path) == path \in DOMAIN F.files \/ path \in F.dirs

\* open(path, 'w') ... write: the file holds exactly the lines written
write_w(F, path, lines) ==
    [F EXCEPT !.files = [p \in DOMAIN F.files \cup {path} |->
                            IF p = path THEN lines ELSE F.files[p]]]

\* setup_cloudflared opening .env with "w": what was in the file is lost
write_truncating(F, path, lines) == write_w(F, path, lines)

\* open(path, 'a') ... write: the lines are added after what the file holds
write_a(F, path, lines) ==
    write_w(F, path, (IF path \in DOMAIN F.files THEN F.files[path] ELSE <<>>) \o lines)

\* os.makedirs(path, exist_ok=True), for the directories this program makes
makedirs(F, path) ==
    [F EXCEPT !.dirs = F.dirs \cup {path} \cup
                       (IF Parent(path) = "." THEN {} ELSE {Parent(path)})]

\* shutil.copy2 / shutil.copyfile succeed when the source and the destination's
\* directory exist; they raise otherwise
CanCopy(F, src, dst) ==
    /\ src \in DOMAIN F.files
    /\ Parent(dst) = "." \/ Parent(dst) \in F.dirs

copy2(F, src, dst) == write_w(F, dst, F.files[src])

\* shutil.rmtree / rm -rf of a directory of the working directory
remove_tree(F, dir) ==
    [files |-> [p \in DOMAIN F.files \ Tree(dir) |-> F.files[p]],
     dirs |-> F.dirs \ Tree(dir)]

\* os.remove / rm -f
remove_file(F, path) ==
    [F EXCEPT !.files = [p \in DOMAIN F.files \ {path} |-> F.files[p]]]

\* the state of a file, for comparisons: absent, or its lines
Snapshot(F, path) ==
    IF path \in DOMAIN F.files THEN [exists |-> TRUE, content |-> F.files[path]]
    ELSE [exists |-> FALSE, content |-> <<>>]

IsPrefix(s, t) == Len(s) <= Len(t) /\ SubSeq(t, 1, Len(s)) = s

\* str.lower() on the texts typed at the prompts
Lower(s) ==
    CASE s = "Y" -> "y"
      [] s = "N" -> "n"
      [] s = "YES" -> "yes"
      [] s = "NO" -> "no"
      [] OTHER -> s

----------------------------------------------------------------------------
(* start_services.py: provisioning *)

\* create_env_file: write .env, make supabase/docker, mirror .env into it
create_env_file(F, rnd) ==
    copy2(makedirs(write_w(F, ENV, env_vars(rnd)), "supabase/docker"), ENV, MIRROR)

GitCloneFull == <<"git", "clone", "https://github.com/supabase/supabase.git">>

\* setup_environment: the resulting working directory, whether create_env_file
\* ran, the commands issued and whether an exception escaped
setup_environment(F, rnd, cloneOk) ==
    LET F1 == IF ~exists(F, ENV)
              THEN create_env_file(F, rnd)
              ELSE copy2(makedirs(F, "supabase/docker"), ENV, MIRROR)
        cloned == ~exists(F1, "supabase")
        F2 == IF cloned /\ cloneOk
              THEN write_w(makedirs(F1, "supabase/docker"), COMPOSE, <<>>)
              ELSE F1
    IN  [fs |-> F2,
         created |-> ~exists(F, ENV),
         cmds |-> IF cloned THEN <<GitCloneFull>> ELSE <<>>,
         raised |-> cloned /\ ~cloneOk]

\* the part of the state that belongs to cleanup.py and to the generators
OtherUnchanged == UNCHANGED <<rc, confirmation, step, downOutcome, dirsAtStart, gen>>

\* an exception nobody catches: traceback, exit status 1
Raise ==
    /\ pc' = "shell"
    /\ exitCode' = 1

\* python start_services.py
StartMain ==
    /\ pc = "shell"
    /\ pc' = "main"
    /\ prog' = "start_services.py"
    /\ cmds' = <<>>
    /\ exitCode' = -1
    /\ envAtStart' = Snapshot(FS(files, dirs), ENV)
    /\ createCalled' = FALSE
    /\ use_cloudflared' = FALSE
    /\ answers' = Unset
    /\ selected_services' = Unset
    /\ startResult' = "none"
    /\ UNCHANGED <<files, dirs>>
    /\ rc' = TRUE
    /\ confirmation' = ""
    /\ step' = 0
    /\ downOutcome' = "none"
    /\ dirsAtStart' = dirs
    /\ UNCHANGED gen

\* main: if not os.path.exists(".env"): setup_environment()
MainSetupEnvironment ==
    /\ pc = "main"
    /\ \E rnd \in RandomDraws, cloneOk \in BOOLEAN :
          LET F == FS(files, dirs)
              r == IF ~exists(F, ENV)
                   THEN setup_environment(F, rnd, cloneOk)
                   ELSE [fs |-> F, created |-> FALSE, cmds |-> <<>>, raised |-> FALSE]
          IN  /\ files' = r.fs.files
              /\ dirs' = r.fs.dirs
              /\ createCalled' = r.created
              /\ cmds' = cmds \o r.cmds
              /\ IF r.raised THEN Raise
                 ELSE pc' = "clone_supabase" /\ UNCHANGED exitCode
    /\ UNCHANGED <<prog, envAtStart, use_cloudflared, answers, selected_services,
                   startResult>>
    /\ OtherUnchanged

\* the shell commands of clone_supabase, in order
CloneCommands ==
    << <<"git clone --filter=blob:none --no-checkout https://github.com/supabase/supabase.git">>,
       <<"cd supabase && git sparse-checkout init --cone">>,
       <<"cd supabase && git sparse-checkout set docker">>,
       <<"cd supabase && git checkout master">> >>

\* clone_supabase with the first failing command failAt (0: none fails): the
\* clone makes supabase, the checkout makes supabase/docker and its compose file
clone_supabase(F, failAt) ==
    IF exists(F, "supabase")
    THEN [fs |-> F, cmds |-> <<>>, raised |-> FALSE]
    ELSE LET n == Len(CloneCommands)
             F1 == IF failAt = 1 THEN F ELSE [F EXCEPT !.dirs = F.dirs \cup {"supabase"}]
             F2 == IF failAt = 0
                   THEN write_w(makedirs(F1, "supabase/docker"), COMPOSE, <<>>)
                   ELSE F1
         IN  IF failAt # 0
             THEN [fs |-> F2, cmds |-> SubSeq(CloneCommands, 1, failAt), raised |-> TRUE]
             ELSE IF CanCopy(F2, ENV, MIRROR)
                  THEN [fs |-> copy2(F2, ENV, MIRROR), cmds |-> CloneCommands,
                        raised |-> FALSE]
                  ELSE [fs |-> F2, cmds |-> CloneCommands, raised |-> TRUE]

MainCloneSupabase ==
    /\ pc = "clone_supabase"
    /\ \E failAt \in 0..Len(CloneCommands) :
          LET r == clone_supabase(FS(files, dirs), failAt)
          IN  /\ files' = r.fs.files
              /\ dirs' = r.fs.dirs
              /\ cmds' = cmds \o r.cmds
              /\ IF r.raised THEN Raise
                 ELSE pc' = "prepare_supabase_env" /\ UNCHANGED exitCode
    /\ UNCHANGED <<prog, envAtStart, createCalled, use_cloudflared, answers,
                   selected_services, startResult>>
    /\ OtherUnchanged

\* prepare_supabase_env: copy .env to supabase/docker/.env
MainPrepareSupabaseEnv ==
    /\ pc = "prepare_supabase_env"
    /\ LET F == FS(files, dirs)
       IN  IF CanCopy(F, ENV, MIRROR)
           THEN /\ files' = copy2(F, ENV, MIRROR).files
                /\ pc' = "setup_searxng"
                /\ UNCHANGED exitCode
           ELSE /\ Raise
                /\ UNCHANGED files
    /\ UNCHANGED <<prog, dirs, cmds, envAtStart, createCalled, use_cloudflared, answers,
                   selected_services, startResult>>
    /\ OtherUnchanged

\* setup_searxng: make searxng-data and its settings.yml unless the directory exists
setup_searxng(F, rnd) ==
    IF ~exists(F, "searxng-data")
    THEN LET F1 == makedirs(F, "searxng-data")
         IN  IF ~exists(F1, SETTINGS)
             THEN write_w(F1, SETTINGS,
                          << Fixed("server:", ""),
                             Random("  secret_key: ", generate_secret(32, rnd)) >>)
             ELSE F1
    ELSE F

MainSetupSearxng ==
    /\ pc = "setup_searxng"
    /\ \E rnd \in RandomDraws :
          LET F == setup_searxng(FS(files, dirs), rnd)
          IN  files' = F.files /\ dirs' = F.dirs
    /\ pc' = "setup_cloudflared"
    /\ UNCHANGED <<prog, cmds, exitCode, envAtStart, createCalled, use_cloudflared,
                   answers, selected_services, startResult>>
    /\ OtherUnchanged

----------------------------------------------------------------------------
(* start_services.py: the tunnel prompt *)

\* texts typed at the y/N prompts (sampled)
TunnelChoices == {"", "y", "Y", "n", "yes"}

\* texts typed at the four credential prompts (sampled)
TunnelInputs ==
    { [tunnel_token |-> "tok1", api_token |-> "api1", account_id |-> "acct1",
       domain |-> "example.com"] }

\* the lines setup_cloudflared writes: an empty line (the leading "\n") and
\* the four credentials
cloudflared_lines(creds) ==
    << BlankLine,
       Fixed("CLOUDFLARED_TUNNEL_TOKEN", creds.tunnel_token),
       Fixed("CLOUDFLARE_API_TOKEN", creds.api_token),
       Fixed("CLOUDFLARE_ACCOUNT_ID", creds.account_id),
       Fixed("DOMAIN", creds.domain) >>

\* how many times the tunnel credentials were added to .env
TunnelAppends(F) ==
    IF ENV \in DOMAIN F.files
    THEN Cardinality({i \in 1..Len(F.files[ENV]) :
                         F.files[ENV][i].name = "CLOUDFLARED_TUNNEL_TOKEN"})
    ELSE 0

\* setup_cloudflared without its copy of .env to supabase/docker/.env
cloudflared_no_propagate(F) == F
\* setup_cloudflared: copy the updated .env to supabase/docker/.env
cloudflared_propagate(F) == copy2(F, ENV, MIRROR)

\* setup_cloudflared: the working directory after it, its result, and whether
\* the final copy raised
setup_cloudflared(F, choice, creds) ==
    IF Lower(choice) # "y"
    THEN [fs |-> F, result |-> FALSE, raised |-> FALSE]
    ELSE LET F1 == write_a(F, ENV, cloudflared_lines(creds))
         IN  IF CanCopy(F1, ENV, MIRROR)
             THEN [fs |-> cloudflared_propagate(F1), result |-> TRUE, raised |-> FALSE]
             ELSE [fs |-> F1, result |-> FALSE, raised |-> TRUE]

MainSetupCloudflared ==
    /\ pc = "setup_cloudflared"
    /\ \E choice \in TunnelChoices, creds \in TunnelInputs :
          /\ Lower(choice) = "y" => TunnelAppends(FS(files, dirs)) < MaxTunnelAppends
          /\ LET r == setup_cloudflared(FS(files, dirs), choice, creds)
             IN  /\ files' = r.fs.files
                 /\ dirs' = r.fs.dirs
                 /\ use_cloudflared' = r.result
                 /\ IF r.raised THEN Raise
                    ELSE pc' = "select_services" /\ UNCHANGED exitCode
    /\ UNCHANGED <<prog, cmds, envAtStart, createCalled, answers, selected_services,
                   startResult>>
    /\ OtherUnchanged

\* Ctrl-C at a prompt: KeyboardInterrupt reaches __main__, sys.exit(1)
Interrupt ==
    /\ prog = "start_services.py"
    /\ pc \in {"setup_cloudflared", "select_services"}
    /\ pc' = "shell"
    /\ exitCode' = 1
    /\ UNCHANGED <<prog, files, dirs, cmds, envAtStart, createCalled, use_cloudflared,
                   answers, selected_services, startResult>>
    /\ OtherUnchanged

----------------------------------------------------------------------------
(* start_services.py: select_services *)

\* the keys of the dictionary services, in insertion order
CatalogOrder ==
    << "Supabase (Database & Vector Store)",
       "N8N (Workflow Automation)",
       "Open WebUI (Chat Interface)",
       "Flowise (Visual Programming)",
       "Qdrant (Vector Database)",
       "Redis (Cache)",
       "SearXNG (Search Engine)",
       "Ollama (Local LLM)",
       "Cloudflared (Secure Access)" >>

Catalog == {CatalogOrder[i] : i \in 1..Len(CatalogOrder)}

\* the initial value of services
DefaultServices == [s \in Catalog |-> s # "Cloudflared (Secure Access)"]

\* texts typed at a service prompt (sampled)
ServiceChoices == {"", "y", "yes", "n", "no", "Y", "NO", "x"}

\* the answers to the nine prompts that are explored: the same text at every
\* prompt, or one text at one prompt and ENTER at the others
AnswerVectors ==
    {[s \in Catalog |-> a] : a \in ServiceChoices} \cup
    {[s \in Catalog |-> IF s = t THEN a ELSE ""] : t \in Catalog, a \in ServiceChoices}

\* one pass of the loop body that sets every entry to the answer's meaning
prompt_sets_all(services, service, choice) ==
    IF choice \in {"y", "yes"} THEN [s \in DOMAIN services |-> TRUE]
    ELSE IF choice \in {"n", "no"} THEN [s \in DOMAIN services |-> FALSE]
    ELSE services

\* the body of the loop of select_services for one service and its lowered answer
prompt(services, service, choice) ==
    IF choice = "" THEN services
    ELSE IF choice \in {"y", "yes"} THEN [services EXCEPT ![service] = TRUE]
    ELSE IF choice \in {"n", "no"} THEN [services EXCEPT ![service] = FALSE]
    ELSE services

RECURSIVE select_loop(_, _, _)
select_loop(services, i, typed) ==
    IF i > Len(CatalogOrder) THEN services
    ELSE select_loop(prompt(services, CatalogOrder[i], Lower(typed[CatalogOrder[i]])),
                     i + 1, typed)

\* select_services: the dictionary returned for the texts typed
select_services(typed) == select_loop(DefaultServices, 1, typed)

MainSelectServices ==
    /\ pc = "select_services"
    /\ \E typed \in AnswerVectors :
          /\ answers' = typed
          /\ selected_services' = select_services(typed)
    /\ pc' = "start_services"
    /\ UNCHANGED <<prog, files, dirs, cmds, exitCode, envAtStart, createCalled,
                   use_cloudflared, startResult>>
    /\ OtherUnchanged

----------------------------------------------------------------------------
(* start_services.py: start_services *)

ComposeDown == <<"docker", "compose", "-p", "localai", "down">>
ComposeUpDb ==
    <<"docker", "compose", "-p", "localai", "-f", "supabase/docker/docker-compose.yml",
      "up", "-d", "db">>
ComposeUp == <<"docker", "compose", "-p", "localai", "-f", "docker-compose.yml", "up", "-d">>

\* how an external command can end: exit status 0, a non-zero exit status
\* (CalledProcessError), or no such program (OSError)
Outcomes == {"ok", "nonzero", "oserror"}

\* the keys of a selection, in the dictionary's order
Keys(selected) == SelectSeq(CatalogOrder, LAMBDA s : s \in DOMAIN selected)

\* the list services_to_start built by the loop of start_services
services_to_start(selected) == SelectSeq(Keys(selected), LAMBDA s : s # "supabase")

\* start_services returns: back in main, which drops the value
Return(value) ==
    /\ startResult' = value
    /\ pc' = "start_returned"

\* start_services: mirror .env, or give up when it is missing
StartCopyEnv ==
    /\ pc = "start_services"
    /\ LET F == FS(files, dirs)
       IN  IF exists(F, ENV) /\ CanCopy(F, ENV, MIRROR)
           THEN /\ files' = copy2(F, ENV, MIRROR).files
                /\ pc' = "compose_down"
                /\ UNCHANGED startResult
           ELSE /\ Return("False")
                /\ UNCHANGED files
    /\ UNCHANGED <<prog, dirs, cmds, exitCode, envAtStart, createCalled, use_cloudflared,
                   answers, selected_services>>
    /\ OtherUnchanged

\* a stop that gives up on a non-zero exit as well
down_aborts_on_nonzero(outcome) == outcome # "ok"
\* the try/except around the compose down: CalledProcessError is passed over,
\* any other exception reaches the outer handler
down_aborts(outcome) == outcome = "oserror"

\* start_services: stop existing containers, ignoring a non-zero exit
StartComposeDown ==
    /\ pc = "compose_down"
    /\ cmds' = Append(cmds, ComposeDown)
    /\ \E outcome \in Outcomes :
          /\ downOutcome' = outcome
          /\ IF down_aborts(outcome) THEN Return("False")
             ELSE pc' = "start_core" /\ UNCHANGED startResult
    /\ UNCHANGED <<prog, files, dirs, exitCode, envAtStart, createCalled, use_cloudflared,
                   answers, selected_services>>
    /\ UNCHANGED <<rc, confirmation, step, dirsAtStart, gen>>

\* start_services: if 'supabase' in selected_services, start the db service
StartCore ==
    /\ pc = "start_core"
    /\ IF "supabase" \in DOMAIN selected_services
       THEN /\ cmds' = Append(cmds, ComposeUpDb)
            /\ \E outcome \in Outcomes :
                  IF outcome = "oserror" THEN Return("False")
                  ELSE pc' = "start_selected" /\ UNCHANGED startResult
       ELSE /\ pc' = "start_selected"
            /\ UNCHANGED <<cmds, startResult>>
    /\ UNCHANGED <<prog, files, dirs, exitCode, envAtStart, createCalled, use_cloudflared,
                   answers, selected_services>>
    /\ OtherUnchanged

\* start_services: one docker compose up -d for services_to_start
StartSelected ==
    /\ pc = "start_selected"
    /\ IF services_to_start(selected_services) # <<>>
       THEN /\ cmds' = Append(cmds, ComposeUp \o services_to_start(selected_services))
            /\ \E outcome \in Outcomes :
                  Return(IF outcome = "ok" THEN "True" ELSE "False")
       ELSE /\ Return("True")
            /\ UNCHANGED cmds
    /\ UNCHANGED <<prog, files, dirs, exitCode, envAtStart, createCalled, use_cloudflared,
                   answers, selected_services>>
    /\ OtherUnchanged

\* main returns after start_services, whatever it returned: exit status 0
MainExit ==
    /\ pc = "start_returned"
    /\ pc' = "shell"
    /\ exitCode' = 0
    /\ UNCHANGED <<prog, files, dirs, cmds, envAtStart, createCalled, use_cloudflared,
                   answers, selected_services, startResult>>
    /\ OtherUnchanged

----------------------------------------------------------------------------
(* cleanup.py *)

volumes_to_remove ==
    << "n8n_storage",
       "ollama_storage",
       "qdrant_storage",
       "open-webui",
       "flowise",
       "caddy-data",
       "caddy-config",
       "valkey-data",
       "cloudflared-config",
       "ollama-data",
       "redis-data",
       "n8n-data",
       "flowise-data",
       "searxng-data" >>

images_to_remove ==
    << "n8nio/n8n:latest",
       "ghcr.io/open-webui/open-webui:main",
       "flowiseai/flowise:latest",
       "qdrant/qdrant",
       "redis:alpine",
       "searxng/searxng:latest",
       "ollama/ollama:latest",
       "cloudflare/cloudflared:latest",
       "docker.io/library/caddy:2-alpine" >>

\* the list with its first entry forgotten
dirs_to_remove_without_supabase ==
    << "n8n-data", "ollama-data", "flowise-data", "webui-data", "searxng-data",
       "__pycache__", "shared", "n8n", "n8n-tool-workflows" >>

dirs_to_remove ==
    << "supabase",
       "n8n-data",
       "ollama-data",
       "flowise-data",
       "webui-data",
       "searxng-data",
       "__pycache__",
       "shared",
       "n8n",
       "n8n-tool-workflows" >>

files_to_remove ==
    << ".env",
       "cloudflared.exe",
       "cloudflared" >>

\* current_dir / name, as text
dir_path(name) == "/work/" \o name

Cmd(text) == [kind |-> "cmd", arg |-> text, path |-> ""]
CmdIfExists(path, text) == [kind |-> "cmd_if_exists", arg |-> text, path |-> path]
RmDir(name) == [kind |-> "rmdir", arg |-> name, path |-> name]
RmFile(name) == [kind |-> "rmfile", arg |-> name, path |-> name]

MapSeq(Op(_), s) == [i \in 1..Len(s) |-> Op(s[i])]
VolumeRm(volume) == Cmd("docker volume rm -f " \o volume)
ImageRm(image) == Cmd("docker rmi -f " \o image)

\* the statements of cleanup(), in program order
CleanupPlan ==
    << Cmd("docker ps -q | xargs -r docker stop -t 0"),
       Cmd("docker ps -a -q | xargs -r docker rm -f"),
       Cmd("docker compose -f docker-compose.yml down -v --remove-orphans"),
       CmdIfExists(COMPOSE,
           "docker compose -f supabase/docker/docker-compose.yml down -v --remove-orphans") >>
    \o MapSeq(VolumeRm, volumes_to_remove)
    \o << Cmd("docker volume prune -f") >>
    \o MapSeq(ImageRm, images_to_remove)
    \o << Cmd("docker image prune -af"),
          Cmd("docker network prune -f") >>
    \o MapSeq(RmDir, dirs_to_remove)
    \o MapSeq(RmFile, files_to_remove)
    \o << Cmd("docker system prune -af --volumes") >>

\* texts typed at the confirmation prompt (sampled)
ConfirmChoices == {"", "y", "Y", "n", "yes"}

\* a gate that lets everything through except an explicit no
confirmed_unless_no(typed) == Lower(typed) # "n"
\* __main__: if input().lower() == 'y'
confirmed(typed) == Lower(typed) = "y"

\* python cleanup.py: the warning is printed, the prompt waits
StartCleanup ==
    /\ pc = "shell"
    /\ pc' = "confirm"
    /\ prog' = "cleanup.py"
    /\ cmds' = <<>>
    /\ exitCode' = -1
    /\ envAtStart' = Snapshot(FS(files, dirs), ENV)
    /\ createCalled' = FALSE
    /\ use_cloudflared' = FALSE
    /\ answers' = Unset
    /\ selected_services' = Unset
    /\ startResult' = "none"
    /\ rc' = TRUE
    /\ confirmation' = ""
    /\ step' = 0
    /\ downOutcome' = "none"
    /\ dirsAtStart' = dirs
    /\ UNCHANGED <<files, dirs, gen>>

MainUnchanged ==
    UNCHANGED <<prog, envAtStart, createCalled, use_cloudflared, answers,
                selected_services, startResult, downOutcome, dirsAtStart, gen>>

\* the statements of cleanup() leave what was typed at the prompt alone
InCleanupUnchanged == MainUnchanged /\ UNCHANGED confirmation

\* the confirmation gate: cleanup() is entered only on y
CleanupConfirm ==
    /\ pc = "confirm"
    /\ \E typed \in ConfirmChoices :
          /\ confirmation' = typed
          /\ IF confirmed(typed)
             THEN pc' = "cleanup" /\ step' = 1 /\ UNCHANGED exitCode
             ELSE pc' = "shell" /\ exitCode' = 0 /\ UNCHANGED step
    /\ UNCHANGED <<files, dirs, cmds, rc>>
    /\ MainUnchanged

Current == CleanupPlan[step]
InCleanup == pc = "cleanup" /\ step \in 1..Len(CleanupPlan)

\* a sequence that stops at the first statement that fails
after_step_stop_on_failure(i, ok) == IF ok THEN i + 1 ELSE Len(CleanupPlan) + 1
\* the statement after statement i, whether it succeeded or not
after_step(i, ok) == i + 1

\* run_command(cmd): the command runs and its success is returned, and dropped
CleanupRunCommand ==
    /\ InCleanup
    /\ \/ Current.kind = "cmd"
       \/ Current.kind = "cmd_if_exists" /\ exists(FS(files, dirs), Current.path)
    /\ cmds' = Append(cmds, <<Current.arg>>)
    /\ \E ok \in BOOLEAN :
          /\ rc' = ok
          /\ step' = after_step(step, ok)
    /\ UNCHANGED <<pc, files, dirs, exitCode>>
    /\ InCleanupUnchanged

\* a guarded statement whose path does not exist does nothing
CleanupSkip ==
    /\ InCleanup
    /\ Current.kind \in {"cmd_if_exists", "rmdir", "rmfile"}
    /\ ~exists(FS(files, dirs), Current.path)
    /\ step' = step + 1
    /\ UNCHANGED <<pc, files, dirs, cmds, rc, exitCode>>
    /\ InCleanupUnchanged

\* how a removal can end: done at once, done by the forced rm after the
\* first attempt raised, or not done by either
Removals == {"removed", "forced", "failed"}

\* one directory of dirs_to_remove that exists: shutil.rmtree, then rm -rf
CleanupRemoveDir ==
    /\ InCleanup
    /\ Current.kind = "rmdir"
    /\ exists(FS(files, dirs), Current.path)
    /\ \E outcome \in Removals :
          LET F == IF outcome = "failed" THEN FS(files, dirs)
                   ELSE remove_tree(FS(files, dirs), Current.path)
          IN  /\ files' = F.files
              /\ dirs' = F.dirs
              /\ IF outcome = "removed" THEN UNCHANGED <<cmds, rc>>
                 ELSE /\ cmds' = Append(cmds, <<"rm -rf " \o dir_path(Current.arg)>>)
                      /\ rc' = (outcome = "forced")
              /\ step' = after_step(step, outcome # "failed")
    /\ UNCHANGED <<pc, exitCode>>
    /\ InCleanupUnchanged

\* one file of files_to_remove that exists: os.remove, then rm -f
CleanupRemoveFile ==
    /\ InCleanup
    /\ Current.kind = "rmfile"
    /\ exists(FS(files, dirs), Current.path)
    /\ \E outcome \in Removals :
          LET F == IF outcome = "failed" THEN FS(files, dirs)
                   ELSE remove_file(FS(files, dirs), Current.path)
          IN  /\ files' = F.files
              /\ IF outcome = "removed" THEN UNCHANGED <<cmds, rc>>
                 ELSE /\ cmds' = Append(cmds, <<"rm -f " \o dir_path(Current.arg)>>)
                      /\ rc' = (outcome = "forced")
              /\ step' = after_step(step, outcome # "failed")
    /\ UNCHANGED <<pc, dirs, exitCode>>
    /\ InCleanupUnchanged

\* cleanup() returns and the script ends
CleanupExit ==
    /\ pc = "cleanup"
    /\ step > Len(CleanupPlan)
    /\ pc' = "shell"
    /\ exitCode' = 0
    /\ UNCHANGED <<files, dirs, cmds, rc, step>>
    /\ InCleanupUnchanged

----------------------------------------------------------------------------
(* Specifications *)

\* a directory the repository ships in the working directory
RepositoryDirs == {"shared"}

\* a fresh checkout of the repository: no .env, no supabase, nothing run yet
Init ==
    /\ pc = "shell"
    /\ prog = "none"
    /\ files = NoFiles
    /\ dirs = RepositoryDirs
    /\ cmds = <<>>
    /\ rc = TRUE
    /\ exitCode = -1
    /\ envAtStart = [exists |-> FALSE, content |-> <<>>]
    /\ createCalled = FALSE
    /\ use_cloudflared = FALSE
    /\ answers = Unset
    /\ selected_services = Unset
    /\ startResult = "none"
    /\ confirmation = ""
    /\ step = 0
    /\ downOutcome = "none"
    /\ dirsAtStart = RepositoryDirs
    /\ gen = GenIdle

Next ==
    \/ StartMain
    \/ MainSetupEnvironment
    \/ MainCloneSupabase
    \/ MainPrepareSupabaseEnv
    \/ MainSetupSearxng
    \/ MainSetupCloudflared
    \/ Interrupt
    \/ MainSelectServices
    \/ StartCopyEnv
    \/ StartComposeDown
    \/ StartCore
    \/ StartSelected
    \/ MainExit
    \/ StartCleanup
    \/ CleanupConfirm
    \/ CleanupRunCommand
    \/ CleanupSkip
    \/ CleanupRemoveDir
    \/ CleanupRemoveFile
    \/ CleanupExit

\* runs of start_services.py and cleanup.py, one after the other
Spec == Init /\ [][Next]_vars

NextGen == GenCall \/ GenDraw \/ GenTest

\* calls of the random string generators
SpecGen == Init /\ [][NextGen]_vars

----------------------------------------------------------------------------
(* Properties *)

InMain == prog = "start_services.py"
InCleanupScript == prog = "cleanup.py"
LastCmd == cmds[Len(cmds)]

\* a command is a docker compose up
IsUp(cmd) == \E i \in 1..Len(cmd) : cmd[i] = "up"
\* a command is the batched start of start_services
IsBatchUp(cmd) ==
    Len(cmd) >= Len(ComposeUp) /\ SubSeq(cmd, 1, Len(ComposeUp)) = ComposeUp
\* the components a batched start names
BatchNames(cmd) == {cmd[i] : i \in (Len(ComposeUp) + 1)..Len(cmd)}
BatchIssued == InMain /\ cmds # <<>> /\ IsBatchUp(LastCmd)

\* the line of .env that sets a name
EnvLine(name) ==
    LET content == files[ENV]
    IN  content[CHOOSE i \in 1..Len(content) : content[i].name = name]

\* C1: a run of start_services.py that begins with .env present never invokes
\* create_env_file, and .env as it was at the start of the run stays a prefix
\* of .env throughout the run and at its end.
C1_ExistingEnvPreserved ==
    (InMain /\ envAtStart.exists) =>
        /\ ~createCalled
        /\ ENV \in DOMAIN files
        /\ IsPrefix(envAtStart.content, files[ENV])

\* a finished run that began with .env present and added the tunnel lines to it
C1_Witness ==
    /\ InMain /\ pc = "shell" /\ exitCode = 0
    /\ envAtStart.exists /\ use_cloudflared
    /\ ENV \in DOMAIN files
    /\ Len(files[ENV]) > Len(envAtStart.content)

\* C2: when main() calls start_services, and whenever a docker compose up has
\* just been issued, supabase/docker/.env exists and equals .env.
C2_MirrorIdentical ==
    (InMain /\ (pc = "start_services" \/ (cmds # <<>> /\ IsUp(LastCmd)))) =>
        /\ ENV \in DOMAIN files
        /\ MIRROR \in DOMAIN files
        /\ files[MIRROR] = files[ENV]

\* the batched up was issued in a run that appended the tunnel lines to .env
C2_Witness ==
    /\ BatchIssued /\ pc = "start_returned"
    /\ use_cloudflared
    /\ files[MIRROR] = files[ENV]
    /\ Len(files[ENV]) > Len(env_vars(CHOOSE rnd \in RandomDraws : TRUE))

\* the managed-database component of the catalog
Core == "Supabase (Database & Vector Store)"

\* C3: the batched docker compose up -d names exactly the components whose
\* selection flag is True, the core component excepted, and none whose flag
\* is False.
C3_BatchNamesExactlyEnabled ==
    BatchIssued =>
        BatchNames(LastCmd) = {s \in Catalog \ {Core} : selected_services[s]}

\* C4: when the batched start is issued and Supabase is enabled in the
\* selection, up -d db on supabase/docker/docker-compose.yml was issued
\* earlier in the same run.
C4_CoreStartedBeforeBatch ==
    (BatchIssued /\ selected_services[Core]) =>
        \E i \in 1..(Len(cmds) - 1) : cmds[i] = ComposeUpDb

\* C5: a run in which the batched start failed, or in which start_services
\* found no .env, ends with a non-zero exit status.
C5_FatalStartExitsNonZero ==
    (InMain /\ pc = "shell" /\ startResult = "False"
        /\ (ENV \notin DOMAIN files \/ (cmds # <<>> /\ IsBatchUp(LastCmd)))) =>
        exitCode # 0

\* C6: in the .env written by create_env_file, the generated part of
\* ANON_KEY and of SERVICE_ROLE_KEY is the HS256 signature of the text before
\* it under the JWT_SECRET of the same file.
C6_TokensSignedWithJwtSecret ==
    (InMain /\ createCalled /\ ENV \in DOMAIN files) =>
        \A name \in {"ANON_KEY", "SERVICE_ROLE_KEY"} :
            EnvLine(name).gen = HS256Signature(EnvLine(name).lit, EnvLine("JWT_SECRET").gen)

\* letters, digits, and the punctuation outside the default exclusion set
PermittedAlphabet == ascii_letters \cup digits \cup (punctuation \ DefaultExcludeChars)

\* a string has the requested length, a letter, a digit and a symbol, and
\* only permitted characters
WellFormedSecret(password, length) ==
    /\ Len(password) = length
    /\ AnyIn(password, ascii_letters)
    /\ AnyIn(password, digits)
    /\ AnyIn(password, punctuation \ DefaultExcludeChars)
    /\ \A i \in 1..Len(password) : password[i] \in PermittedAlphabet

\* C7 as stated: for every length >= 3, what generate_secret returns has that
\* length, a letter, a digit and a symbol, over the permitted alphabet only.
C7_GenerateSecretHasAllClasses ==
    (gen.pc = "returned" /\ gen.fn = "generate_secret" /\ gen.length >= 3) =>
        WellFormedSecret(gen.password, gen.length)

\* C7 amended: for every length >= 3, what generate_random_string returns
\* with the default exclusion set has that length, a letter, a digit and a
\* symbol, over the permitted alphabet only; what generate_secret returns
\* has that length and holds letters and digits only.
C7_GenerateRandomStringHasAllClasses ==
    (gen.pc = "returned" /\ gen.length >= 3) =>
        /\ gen.fn = "generate_random_string" =>
              WellFormedSecret(gen.password, gen.length)
        /\ gen.fn = "generate_secret" =>
              /\ Len(gen.password) = gen.length
              /\ \A i \in 1..Len(gen.password) :
                    gen.password[i] \in ascii_letters \cup digits

\* generate_random_string returned a string of length 3 with one character of each class
C7_Witness ==
    /\ gen.pc = "returned" /\ gen.fn = "generate_random_string"
    /\ gen.length = 3
    /\ gen.password = <<"Z", "#", "7">>

\* C8: at the confirmation prompt of cleanup.py, any answer other than y or Y
\* ends the script without entering cleanup(), without issuing a command and
\* without changing a file or a directory.
C8_DeclineChangesNothing ==
    [][ (InCleanupScript /\ pc = "confirm" /\ confirmation' \notin {"y", "Y"}) =>
            /\ pc' = "shell"
            /\ step' = 0
            /\ cmds' = <<>>
            /\ files' = files
            /\ dirs' = dirs ]_vars

\* cleanup.py was declined with "yes" in a provisioned working directory
C8_Witness ==
    /\ InCleanupScript /\ pc = "shell" /\ confirmation = "yes"
    /\ step = 0 /\ cmds = <<>>
    /\ ENV \in DOMAIN files /\ "supabase" \in dirs

\* the generated directories the reversal is to leave none of
DirsToRemove ==
    {"supabase", "searxng-data", "n8n-data", "ollama-data", "flowise-data", "webui-data",
     "shared", "n8n", "n8n-tool-workflows", "__pycache__"}
CleanupFinished == InCleanupScript /\ pc = "shell" /\ step > Len(CleanupPlan)
Issued(cmd) == \E i \in 1..Len(cmds) : cmds[i] = cmd

\* C9 as stated: after a confirmed run of cleanup(), .env, its mirror and
\* every directory of dirs_to_remove are gone.
C9_CleanupLeavesNothing ==
    CleanupFinished =>
        /\ ENV \notin DOMAIN files
        /\ MIRROR \notin DOMAIN files
        /\ dirs \cap DirsToRemove = {}

\* C9 amended: after a confirmed run of cleanup(), each directory of
\* dirs_to_remove is gone unless its forced rm -rf was also run and did not
\* remove it, .env is gone unless its forced rm -f was also run and did not
\* remove it, and the mirror is gone unless the supabase directory remains.
C9_CleanupLeavesOnlyFailedRemovals ==
    CleanupFinished =>
        /\ \A d \in dirs \cap DirsToRemove : Issued(<<"rm -rf " \o dir_path(d)>>)
        /\ ENV \in DOMAIN files => Issued(<<"rm -f " \o dir_path(ENV)>>)
        /\ MIRROR \in DOMAIN files => "supabase" \in dirs

\* a confirmed cleanup of a provisioned directory removed .env, supabase and
\* searxng-data, one of them by the forced removal
C9_Witness ==
    /\ CleanupFinished
    /\ envAtStart.exists
    /\ ENV \notin DOMAIN files /\ MIRROR \notin DOMAIN files
    /\ dirs \cap DirsToRemove = {}
    /\ Issued(<<"rm -rf " \o dir_path("supabase")>>)

\* the default state the prompts display: everything active but Cloudflared
DocumentedDefault(s) == s # "Cloudflared (Secure Access)"

\* C10: in what select_services returns, an entry is True if its own prompt
\* was answered y or yes, False if it was answered n or no (in any letter
\* case), and at its documented default for any other text; so ENTER at
\* every prompt returns the documented defaults.
C10_SelectionFollowsAnswers ==
    (InMain /\ selected_services # Unset) =>
        /\ DOMAIN selected_services = Catalog
        /\ \A s \in Catalog :
              selected_services[s] =
                 IF Lower(answers[s]) \in {"y", "yes"} THEN TRUE
                 ELSE IF Lower(answers[s]) \in {"n", "no"} THEN FALSE
                 ELSE DocumentedDefault(s)

\* Supabase was switched off with NO, the other entries kept their defaults
C10_Witness ==
    /\ InMain /\ selected_services # Unset
    /\ answers[Core] = "NO"
    /\ ~selected_services[Core]
    /\ selected_services["N8N (Workflow Automation)"]
    /\ ~selected_services["Cloudflared (Secure Access)"]

\* start_services ran to its end: it returned, or the script is over after it
StartReturned == InMain /\ pc \in {"start_returned", "shell"} /\ startResult # "none"

\* C11: in a run of start_services.py every docker compose up comes after
\* the compose down of the localai project, and when that down exits
\* non-zero the run still goes on to the start: once start_services has
\* returned, the batched up has been issued.
C11_StopBeforeStartAndTolerated ==
    InMain =>
        /\ \A i \in 1..Len(cmds) :
              IsUp(cmds[i]) => \E j \in 1..(i - 1) : cmds[j] = ComposeDown
        /\ downOutcome = "nonzero" =>
              /\ pc \in {"start_core", "start_selected", "start_returned", "shell"}
              /\ StartReturned => \E i \in 1..Len(cmds) : IsBatchUp(cmds[i])

\* the down exited non-zero and the batched up was issued after it
C11_Witness ==
    /\ InMain /\ pc = "start_returned"
    /\ downOutcome = "nonzero"
    /\ cmds[Len(cmds) - 1] = ComposeDown
    /\ IsBatchUp(LastCmd)

\* the commands cleanup() runs unconditionally, up to statement n, in order
UnconditionalCmds(n) ==
    LET sel == SelectSeq(SubSeq(CleanupPlan, 1, n), LAMBDA st : st.kind = "cmd")
    IN  [i \in 1..Len(sel) |-> <<sel[i].arg>>]
\* those of them that were issued, in the order of issue
IssuedUnconditional ==
    LET all == UnconditionalCmds(Len(CleanupPlan))
    IN  SelectSeq(cmds, LAMBDA c : \E i \in 1..Len(all) : all[i] = c)

\* the command that closes each phase of the reversal, in the fixed order
PhaseMarks ==
    << <<"docker ps -q | xargs -r docker stop -t 0">>,
       <<"docker compose -f docker-compose.yml down -v --remove-orphans">>,
       <<"docker volume prune -f">>,
       <<"docker image prune -af">>,
       <<"docker network prune -f">>,
       <<"docker system prune -af --volumes">> >>
IsForcedRemoval(c) ==
    \/ \E d \in DirsToRemove : c = <<"rm -rf " \o dir_path(d)>>
    \/ \E f \in {ENV, "cloudflared.exe", "cloudflared"} : c = <<"rm -f " \o dir_path(f)>>
\* position of a command in the log (0: not issued)
Pos(c) == IF Issued(c) THEN CHOOSE i \in 1..Len(cmds) : cmds[i] = c ELSE 0

\* C12: in a confirmed run of cleanup() every statement is attempted in
\* program order whatever failed before it: the unconditional commands
\* issued so far are exactly those of the statements passed, in order; a
\* directory that is still there after its statement has had its forced
\* rm -rf; and the script ends only after the last statement, with the phases
\* in the fixed order and the forced removals between the network prune and
\* the final system prune.
C12_AllStepsAttemptedInOrder ==
    (InCleanupScript /\ pc \in {"cleanup", "shell"} /\ step >= 1) =>
        /\ step <= Len(CleanupPlan) + 1
        /\ IssuedUnconditional = UnconditionalCmds(step - 1)
        /\ \A i \in 1..(step - 1) :
              (CleanupPlan[i].kind = "rmdir" /\ CleanupPlan[i].arg \in dirs) =>
                  Issued(<<"rm -rf " \o dir_path(CleanupPlan[i].arg)>>)
        /\ pc = "shell" =>
              /\ step = Len(CleanupPlan) + 1
              /\ SelectSeq(cmds, LAMBDA c : \E k \in 1..Len(PhaseMarks) : PhaseMarks[k] = c)
                    = PhaseMarks
              /\ LastCmd = PhaseMarks[Len(PhaseMarks)]
              /\ \A i \in 1..Len(cmds) :
                    IsForcedRemoval(cmds[i]) =>
                        Pos(PhaseMarks[Len(PhaseMarks) - 1]) < i /\ i < Len(cmds)

\* a confirmed cleanup ran to its end although supabase could not be removed,
\* even by the forced rm -rf, and the final prune failed
C12_Witness ==
    /\ CleanupFinished
    /\ "supabase" \in dirs
    /\ Issued(<<"rm -rf " \o dir_path("supabase")>>)
    /\ LastCmd = <<"docker system prune -af --volumes">>
    /\ ~rc

\* the git clone of the external repository was run, by either function
CloneIssued ==
    \/ Issued(GitCloneFull)
    \/ \A k \in 1..Len(CloneCommands) : Issued(CloneCommands[k])

\* C13: a run of main() that began without a supabase directory has cloned
\* and checked out the external repository by the time it calls
\* start_services.
C13_CloneBeforeStart ==
    (InMain /\ "supabase" \notin dirsAtStart /\ pc = "start_services") => CloneIssued

\* the characters generated into the values of a file
GeneratedChars(content) ==
    UNION {{content[i].gen[k] : k \in 1..Len(content[i].gen)} : i \in 1..Len(content)}

\* C14: no value create_env_file generates into .env holds a character of
\* the exclusion set @ < > & ' ".
C14_GeneratedValuesAvoidExcluded ==
    (InMain /\ createCalled /\ ENV \in DOMAIN files) =>
        GeneratedChars(files[ENV]) \cap {"@", "<", ">", "&", "'", "\""} = {}

\* C15: every variable name occurs in at most one line of .env.
C15_EnvKeysUnique ==
    ENV \in DOMAIN files =>
        \A i, j \in 1..Len(files[ENV]) :
            (files[ENV][i].name = files[ENV][j].name /\ files[ENV][i].name # "") => i = j

====
